---------------------------- MODULE Spec2Model ----------------------------
(***************************************************************************)
(* A model of DevProjectScraper0_5.py, the Fluvanna meetings scraper: one  *)
(* sequential script that walks the paginated listing, probes the five     *)
(* labelled document links of every row, downloads the ones that answer    *)
(* with a PDF content type, and writes one CSV row per download.           *)
(*                                                                         *)
(* Text (hrefs, URLs, file names, titles, content types) is a sequence of  *)
(* one-character strings, so that startswith, split, re.sub, strip and the *)
(* substring test are computed character by character as Python does.      *)
(*                                                                         *)
(* The web site, the network and the file system are the environment: what *)
(* a page holds, what a request answers and whether a write succeeds are   *)
(* chosen with \E at the step of the script that reads them.               *)
(***************************************************************************)
EXTENDS Naturals, Sequences, FiniteSets

(***************************************************************************)
(* Bounds of the model.                                                    *)
(***************************************************************************)
\* Listing pages 0 .. MaxPage-1 may hold rows; page MaxPage holds none.
MaxPage == 1
\* Rows (tr.odd, tr.even) a listing page holds at most.
MaxRows == 2
\* The cap on len(results): a probe is answered with a PDF content type only
\* while the records and the row's pending downloads are fewer than this.
MaxDownloads == 2
\* Characters that follow the prefix of an href in the URL pipeline (UrlSpec).
MaxLen == 3

(***************************************************************************)
(* Text constants of the script.                                           *)
(***************************************************************************)
ORIGIN ==
    <<"h", "t", "t", "p", "s", ":", "/", "/", "w", "w", "w", ".", "f", "l", "u", "v", "a", "n", "n", "a", "c", "o", "u", "n", "t", "y", ".", "o", "r", "g">>
HTTP ==
    <<"h", "t", "t", "p">>
UNKNOWN ==
    <<"U", "n", "k", "n", "o", "w", "n">>
DOWNLOADS ==
    <<"d", "o", "w", "n", "l", "o", "a", "d", "s">>
APPLICATION_PDF ==
    <<"a", "p", "p", "l", "i", "c", "a", "t", "i", "o", "n", "/", "p", "d", "f">>
\* re.sub(r'[\\/*?:"<>|]', ...): the nine characters of the class.
BadCharsAndSpace ==
    {"\\", "/", "*", "?", ":", "\"", "<", ">", "|", " "}
BadCharsNoBackslash ==
    {"/", "*", "?", ":", "\"", "<", ">", "|"}
BadChars ==
    {"\\", "/", "*", "?", ":", "\"", "<", ">", "|"}
\* The labels in the order the dict literal declares them.
Labels ==
    <<"Agenda", "Package", "Action Report", "Minutes", "COAD Report">>
\* csv.DictWriter's fieldnames.
fieldnames ==
    <<"title", "date", "pdf_url", "file">>
\* What str.strip() removes at both ends.
Whitespace ==
    {" ", "\t", "\n"}

(***************************************************************************)
(* Inputs the environment draws from.                                      *)
(***************************************************************************)
TEXT_HTML ==
    <<"t", "e", "x", "t", "/", "h", "t", "m", "l">>
PDF_WITH_CHARSET ==
    <<"a", "p", "p", "l", "i", "c", "a", "t", "i", "o", "n", "/", "p", "d", "f", ";", " ", "c", "h", "a", "r", "s", "e", "t", "=", "b", "i", "n", "a", "r", "y">>
AGENDA_FINAL_URL ==
    <<"h", "t", "t", "p", "s", ":", "/", "/", "e", "x", "a", "m", "p", "l", "e", ".", "o", "r", "g", "/", "d", "o", "c", "s", "/", "A", "g", "e", "n", "d", "a", " ", "F", "i", "n", "a", "l", ".", "p", "d", "f">>
HREF_FOLDER ==
    <<"/", "d", "o", "c", "s", "/">>
HREF_ROOTED ==
    <<"/", "d", "o", "c", "s", "/", "m", "i", "n", ".", "p", "d", "f">>
\* Content-Type headers a probe may observe; <<>> is a response without one.
ContentTypes ==
    {<<>>, TEXT_HTML, APPLICATION_PDF, PDF_WITH_CHARSET}
\* select_one's answers: no element, or the element's text / href.
NoTag == <<>>
Tag(x) == <<x>>
\* Rows a listing page is made of.  A title or date cell is missing, blank
\* or holds text with blanks around it; anchors holds, label by label in
\* the order of Labels, the anchor found under that label's selector.
RowMarkups ==
    {[title_tag |-> NoTag, date_tag |-> NoTag,
      anchors |-> <<NoTag, NoTag, NoTag, Tag(HREF_ROOTED), NoTag>>],
     [title_tag |-> Tag(<<" ">>), date_tag |-> Tag(<<" ", "5", "/", "1", " ">>),
      anchors |-> <<NoTag, Tag(HREF_FOLDER), NoTag, NoTag, NoTag>>],
     [title_tag |-> Tag(<<" ", "B", "O", "S", " ">>), date_tag |-> Tag(<<" ">>),
      anchors |-> <<Tag(AGENDA_FINAL_URL), Tag(HREF_ROOTED), NoTag, NoTag,
                    Tag(AGENDA_FINAL_URL)>>]}
\* The listing pages of at most n rows.
RECURSIVE Listings(_)
Listings(n) ==
    IF n = 0
    THEN {<<>>}
    ELSE LET shorter == Listings(n - 1)
         IN  shorter \cup {Append(l, m) : l \in shorter, m \in RowMarkups}
\* Characters of the hrefs the URL pipeline is run on: the nine of the
\* class, a letter, a blank and a dot.
Alphabet ==
    {"\\", "/", "*", "?", ":", "\"", "<", ">", "|", "a", " ", "."}
\* What such an href starts with.
Prefixes ==
    {<<>>, <<"h", "t", "t", "p">>, <<"h", "t", "t", "p", "s", ":", "/", "/">>}

(***************************************************************************)
(* The script's pure computations.                                         *)
(***************************************************************************)
Last(s) == s[Len(s)]

\* str.startswith
StartsWith(s, prefix) ==
    /\ Len(s) >= Len(prefix)
    /\ SubSeq(s, 1, Len(prefix)) = prefix

\* line 119: the origin is prepended unless the href starts with "http".
FullUrl(raw_url) ==
    IF ~StartsWith(raw_url, HTTP) THEN ORIGIN \o raw_url ELSE raw_url

\* str.split(ch): the pieces between the occurrences of ch.
RECURSIVE Split(_, _)
Split(s, ch) ==
    IF \A i \in 1..Len(s) : s[i] # ch
    THEN <<s>>
    ELSE LET i == CHOOSE k \in 1..Len(s) :
                      /\ s[k] = ch
                      /\ \A j \in 1..(k - 1) : s[j] # ch
         IN  <<SubSeq(s, 1, i - 1)>> \o Split(SubSeq(s, i + 1, Len(s)), ch)

\* re.sub(r'[\\/*?:"<>|]', "_", s)
ReSub(s) ==
    [i \in 1..Len(s) |-> IF s[i] \in BadChars THEN "_" ELSE s[i]]

\* line 130
PdfName(pdf_url) == ReSub(Last(Split(pdf_url, "/")))

\* str.strip()
RECURSIVE LStrip(_)
LStrip(s) ==
    IF s # <<>> /\ s[1] \in Whitespace THEN LStrip(Tail(s)) ELSE s
RECURSIVE RStrip(_)
RStrip(s) ==
    IF s # <<>> /\ Last(s) \in Whitespace
    THEN RStrip(SubSeq(s, 1, Len(s) - 1))
    ELSE s
Strip(s) == RStrip(LStrip(s))

\* lines 92 and 95: tag.text.strip() if tag else "Unknown"
TextOrUnknown(tag) ==
    IF tag # NoTag THEN Strip(tag[1]) ELSE UNKNOWN

\* line 123: 'application/pdf' in content_type
IsPdfUnchecked(content_type) == TRUE
IsPdf(content_type) ==
    \E i \in 1..(Len(content_type) + 1) :
        StartsWith(SubSeq(content_type, i, Len(content_type)), APPLICATION_PDF)

\* line 82: not meeting_nodes
NoMeetingNodesIgnored(nodes) == FALSE
NoMeetingNodes(nodes) == Len(nodes) = 0

\* line 129: the download loop takes pdf_urls in insertion order.
NextDownloadReversed(urls, i) == urls[Len(urls) + 1 - i]
NextDownload(urls, i) == urls[i]

\* writer.writerow: one record's values in the order of fieldnames.
DictRow(rec) == [i \in 1..Len(fieldnames) |-> rec[fieldnames[i]]]

\* lines 160-161: the header, then one row per record.
CsvFileReversed(recs) ==
    <<fieldnames>> \o [i \in 1..Len(recs) |-> DictRow(recs[Len(recs) + 1 - i])]
CsvFile(recs) ==
    <<fieldnames>> \o [i \in 1..Len(recs) |-> DictRow(recs[i])]

(***************************************************************************)
(* State.                                                                  *)
(***************************************************************************)
VARIABLES
    pc,                     \* where the script is
    page,                   \* params['page']
    meeting_nodes,          \* the rows selected from the page being walked
    ri,                     \* rows of the page the for loop has taken
    title, date,            \* of the current row
    li,                     \* index in Labels of the label to probe next
    pdf_urls,               \* the row's dict, as <<[label, url], ...>>
    di,                     \* index in pdf_urls of the download to do next
    results,                \* the download records
    pdfs_found_this_page,
    csv,                    \* rows of meeting_documents.csv, <<>> if unwritten
    driver,                 \* "open" until driver.quit()
    written,                \* the file system's journal of downloads/ writes
    log,                    \* the requests made for the row in hand, or the
                            \* load of the page when no row was taken since
    raw_url, full_url, pdf_name, local_path
                            \* one link taken through the URL pipeline (UrlSpec)

vars ==
    <<pc, page, meeting_nodes, ri, title, date, li, pdf_urls, di, results,
      pdfs_found_this_page, csv, driver, written, log,
      raw_url, full_url, pdf_name, local_path>>

pipeline == <<raw_url, full_url, pdf_name, local_path>>

\* os.sep; the script is run on a POSIX system.
sep == "/"

\* line 131: os.path.join('downloads', pdf_name)
LocalPath(name) == DOWNLOADS \o <<sep>> \o name

\* A request: the page, row and label it was made for, the URL asked for
\* and what came back.
Event(kind, row, label, url, result, content_type, rows) ==
    [kind |-> kind, page |-> page, row |-> row, label |-> label, url |-> url,
     result |-> result, content_type |-> content_type, rows |-> rows]

Init ==
    /\ pc = "load"
    /\ page = 0
    /\ meeting_nodes = <<>>
    /\ ri = 0
    /\ title = <<>>
    /\ date = <<>>
    /\ li = 1
    /\ pdf_urls = <<>>
    /\ di = 1
    /\ results = <<>>
    /\ pdfs_found_this_page = 0
    /\ csv = <<>>
    /\ driver = "open"
    /\ written = <<>>
    /\ log = <<>>
    /\ raw_url = <<>>
    /\ full_url = <<>>
    /\ pdf_name = <<>>
    /\ local_path = <<>>

(***************************************************************************)
(* Lines 63-86: load one listing page and select its rows.  driver.get is  *)
(* outside every try block, so an exception it raises ends the script; a   *)
(* timeout of the wait, or a page without rows, breaks out of the walk.    *)
(***************************************************************************)
LoadPage ==
    /\ pc = "load"
    /\ \E result \in {"raised", "timeout", "parsed"} :
       \E nodes \in Listings(IF result = "parsed" /\ page < MaxPage
                               THEN MaxRows ELSE 0) :
          /\ log' = Append(<<>>, Event("page", 0, "", <<>>, result, <<>>,
                                       Len(nodes)))
          /\ IF result = "raised"
             THEN /\ pc' = "crashed"
                  /\ UNCHANGED <<meeting_nodes, ri, pdfs_found_this_page>>
             ELSE IF result = "timeout"
             THEN /\ pc' = "csv"
                  /\ UNCHANGED <<meeting_nodes, ri, pdfs_found_this_page>>
             ELSE /\ meeting_nodes' = nodes
                  /\ IF NoMeetingNodes(nodes)
                     THEN /\ pc' = "csv"
                          /\ UNCHANGED <<ri, pdfs_found_this_page>>
                     ELSE /\ pc' = "row"
                          /\ ri' = 0
                          /\ pdfs_found_this_page' = 0
    /\ UNCHANGED <<page, title, date, li, pdf_urls, di, results, csv, driver,
                   written, pipeline>>

(***************************************************************************)
(* Lines 88-104: the for loop takes the next row and reads its title and   *)
(* date, or ends.  The loop over all anchors of the row only prints.       *)
(***************************************************************************)
NextMeeting ==
    /\ pc = "row"
    /\ IF ri < Len(meeting_nodes)
       THEN LET meeting == meeting_nodes[ri + 1] IN
               /\ ri' = ri + 1
               /\ title' = TextOrUnknown(meeting.title_tag)
               /\ date' = TextOrUnknown(meeting.date_tag)
               /\ pdf_urls' = <<>>
               /\ li' = 1
               /\ pc' = "probe"
       ELSE /\ pc' = "sleep"
            /\ UNCHANGED <<ri, title, date, pdf_urls, li>>
    /\ log' = <<>>
    /\ UNCHANGED <<page, meeting_nodes, di, results, pdfs_found_this_page, csv,
                   driver, written, pipeline>>

(***************************************************************************)
(* Lines 109-127: one label of the row.  Without an anchor nothing is      *)
(* requested; with one, the resolved URL is requested once and kept in     *)
(* pdf_urls when the answer's Content-Type contains application/pdf.  An   *)
(* exception of the request is caught and the label skipped.               *)
(***************************************************************************)
ProbeLabel ==
    /\ pc = "probe"
    /\ LET tag == meeting_nodes[ri].anchors[li] IN
          IF tag = NoTag
          THEN /\ UNCHANGED log
               /\ UNCHANGED pdf_urls
          ELSE LET url == FullUrl(tag[1]) IN
               \/ /\ log' = Append(log, Event("probe", ri, Labels[li],
                                              url, "error", <<>>, 0))
                  /\ UNCHANGED pdf_urls
               \/ \E content_type \in
                        {c \in ContentTypes :
                            \/ ~IsPdf(c)
                            \/ Len(results) + Len(pdf_urls) < MaxDownloads} :
                     /\ log' = Append(log, Event("probe", ri, Labels[li],
                                                 url, "answered",
                                                 content_type, 0))
                     /\ pdf_urls' =
                            IF IsPdf(content_type)
                            THEN Append(pdf_urls,
                                        [label |-> Labels[li], url |-> url])
                            ELSE pdf_urls
    /\ IF li < Len(Labels)
       THEN /\ li' = li + 1
            /\ UNCHANGED <<pc, di>>
       ELSE /\ pc' = "download"
            /\ di' = 1
            /\ UNCHANGED li
    /\ UNCHANGED <<page, meeting_nodes, ri, title, date, results,
                   pdfs_found_this_page, csv, driver, written, pipeline>>

(***************************************************************************)
(* Lines 129-147: one entry of pdf_urls.  The request, raise_for_status    *)
(* and the write of the file are in one try block: the record is appended  *)
(* only when all three succeed.  A name that is empty (a URL ending in     *)
(* "/") makes local_path the downloads directory, which open() refuses.    *)
(***************************************************************************)
Download ==
    /\ pc = "download"
    /\ di <= Len(pdf_urls)
    /\ LET pdf_url == NextDownload(pdf_urls, di).url
           pdf_type == NextDownload(pdf_urls, di).label
           name == PdfName(pdf_url)
           path == LocalPath(name)
       IN  \E result \in {"error", "status", "write_error"} \cup
                         (IF name # <<>> THEN {"saved"} ELSE {}) :
              /\ log' = Append(log, Event("fetch", ri, pdf_type,
                                          pdf_url, result, <<>>, 0))
              /\ IF result = "saved"
                 THEN /\ written' = Append(written, [path |-> path,
                                                     content |-> pdf_url])
                      /\ results' = Append(results,
                                           [title |-> title, date |-> date,
                                            pdf_url |-> pdf_url, file |-> path])
                      /\ pdfs_found_this_page' = pdfs_found_this_page + 1
                 ELSE UNCHANGED <<written, results, pdfs_found_this_page>>
    /\ di' = di + 1
    /\ UNCHANGED <<pc, page, meeting_nodes, ri, title, date, li, pdf_urls, csv,
                   driver, pipeline>>

(***************************************************************************)
(* Lines 149-151: the end of the row's body; its test of meeting_nodes     *)
(* would leave the for loop.                                               *)
(***************************************************************************)
EndMeeting ==
    /\ pc = "download"
    /\ di > Len(pdf_urls)
    /\ pc' = IF NoMeetingNodes(meeting_nodes) THEN "sleep" ELSE "row"
    /\ UNCHANGED <<page, meeting_nodes, ri, title, date, li, pdf_urls, di,
                   results, pdfs_found_this_page, csv, driver, written,
                   log, pipeline>>

(***************************************************************************)
(* Lines 153-154.                                                          *)
(***************************************************************************)
NextPage ==
    /\ pc = "sleep"
    /\ page' = page + 1
    /\ pc' = "load"
    /\ UNCHANGED <<meeting_nodes, ri, title, date, li, pdf_urls, di, results,
                   pdfs_found_this_page, csv, driver, written, log, pipeline>>

(***************************************************************************)
(* Lines 156-161.  The working directory is taken to be writable.          *)
(***************************************************************************)
WriteCsv ==
    /\ pc = "csv"
    /\ csv' = CsvFile(results)
    /\ pc' = "quit"
    /\ UNCHANGED <<page, meeting_nodes, ri, title, date, li, pdf_urls, di,
                   results, pdfs_found_this_page, driver, written, log, pipeline>>

(***************************************************************************)
(* Line 166.                                                               *)
(***************************************************************************)
Quit ==
    /\ pc = "quit"
    /\ driver' = "quit"
    /\ pc' = "done"
    /\ UNCHANGED <<page, meeting_nodes, ri, title, date, li, pdf_urls, di,
                   results, pdfs_found_this_page, csv, written, log, pipeline>>

Next ==
    \/ LoadPage
    \/ NextMeeting
    \/ ProbeLabel
    \/ Download
    \/ EndMeeting
    \/ NextPage
    \/ WriteCsv
    \/ Quit

Spec == Init /\ [][Next]_vars

(***************************************************************************)
(* The URL pipeline on its own: one href, of any characters of Alphabet    *)
(* after any of Prefixes, is resolved (line 119), named (lines 130-131)    *)
(* and written (lines 136-137) as a link that passed the probe is.         *)
(***************************************************************************)
RECURSIVE Strings(_)
Strings(n) ==
    IF n = 0
    THEN {<<>>}
    ELSE LET shorter == Strings(n - 1)
         IN  shorter \cup {Append(s, c) : s \in shorter, c \in Alphabet}

UrlInit ==
    /\ pc = "tag"
    /\ raw_url \in {p \o s : p \in Prefixes, s \in Strings(MaxLen)}
    /\ full_url = <<>>
    /\ pdf_name = <<>>
    /\ local_path = <<>>
    /\ written = <<>>
    /\ page = 0
    /\ meeting_nodes = <<>>
    /\ ri = 0
    /\ title = <<>>
    /\ date = <<>>
    /\ li = 1
    /\ pdf_urls = <<>>
    /\ di = 1
    /\ results = <<>>
    /\ pdfs_found_this_page = 0
    /\ csv = <<>>
    /\ driver = "open"
    /\ log = <<>>

crawl ==
    <<page, meeting_nodes, ri, title, date, li, pdf_urls, di, results,
      pdfs_found_this_page, csv, driver, log>>

UrlResolve ==
    /\ pc = "tag"
    /\ full_url' = FullUrl(raw_url)
    /\ pc' = "resolved"
    /\ UNCHANGED <<raw_url, pdf_name, local_path, written, crawl>>

UrlName ==
    /\ pc = "resolved"
    /\ pdf_name' = PdfName(full_url)
    /\ local_path' = LocalPath(PdfName(full_url))
    /\ pc' = "named"
    /\ UNCHANGED <<raw_url, full_url, written, crawl>>

UrlWrite ==
    /\ pc = "named"
    /\ IF pdf_name # <<>>
       THEN /\ written' = Append(written, [path |-> local_path,
                                           content |-> full_url])
            /\ pc' = "saved"
       ELSE /\ pc' = "refused"
            /\ UNCHANGED written
    /\ UNCHANGED <<raw_url, full_url, pdf_name, local_path, crawl>>

UrlNext ==
    \/ UrlResolve
    \/ UrlName
    \/ UrlWrite

UrlSpec == UrlInit /\ [][UrlNext]_vars

(***************************************************************************)
(* What the properties below are stated with.                              *)
(***************************************************************************)
\* sub occurs in s as a run of consecutive characters.
Contains(s, sub) ==
    \E i \in 0..Len(s) :
        /\ i + Len(sub) <= Len(s)
        /\ \A k \in 1..Len(sub) : s[i + k] = sub[k]

\* A probe whose answer carried a Content-Type containing application/pdf.
SawPdf(e) ==
    /\ e.kind = "probe"
    /\ e.result = "answered"
    /\ Contains(e.content_type, APPLICATION_PDF)

\* The step appends one download attempt to the log.
FetchStep ==
    /\ Len(log') = Len(log) + 1
    /\ SubSeq(log', 1, Len(log)) = log
    /\ Last(log').kind = "fetch"

\* The step appends one record, for the URL just fetched, to results.
RecordStep ==
    /\ Len(results') = Len(results) + 1
    /\ SubSeq(results', 1, Len(results)) = results
    /\ Last(results').pdf_url = Last(log').url
    /\ Last(results').title = title
    /\ Last(results').date = date

\* The row in hand is finished: its probes and its downloads are done.
RowDone == pc = "row" /\ ri > 0

\* Where the script has left the walk of the pages.
Stopped == {"csv", "quit", "done", "crashed"}

(***************************************************************************)
(* C1, as amended: a record is appended if and only if the probe of the    *)
(* link saw a Content-Type containing application/pdf, the fetch of the    *)
(* link succeeded and the file was written.  A download is attempted only  *)
(* for a link whose probe saw a PDF type, every such link of a finished    *)
(* row was attempted, an attempt appends its record exactly when it saved  *)
(* the file, and results changes in no other step.                         *)
(***************************************************************************)
C1_AttemptsFollowPdfProbes ==
    /\ \A j \in DOMAIN log :
          log[j].kind = "fetch" =>
              \E i \in 1..(j - 1) :
                  /\ SawPdf(log[i])
                  /\ log[i].label = log[j].label
                  /\ log[i].url = log[j].url
    /\ RowDone =>
          \A i \in DOMAIN log :
              SawPdf(log[i]) =>
                  \E j \in (i + 1)..Len(log) :
                      /\ log[j].kind = "fetch"
                      /\ log[j].label = log[i].label
                      /\ log[j].url = log[i].url

C1_RecordIffSavedStep ==
    /\ FetchStep =>
          IF Last(log').result = "saved" THEN RecordStep ELSE results' = results
    /\ results' # results => FetchStep

C1_RecordIffPdfFetchedAndWritten ==
    [](C1_AttemptsFollowPdfProbes) /\ [][C1_RecordIffSavedStep]_vars

\* C1 witness: a finished row with a link probed as HTML and not attempted,
\* a PDF link fetched and saved, and a PDF link fetched but not written.
C1_Witness ==
    /\ RowDone
    /\ \E i \in DOMAIN log :
          /\ log[i].kind = "probe"
          /\ log[i].content_type = TEXT_HTML
    /\ \E j \in DOMAIN log : log[j].kind = "fetch" /\ log[j].result = "saved"
    /\ \E j \in DOMAIN log :
          log[j].kind = "fetch" /\ log[j].result = "write_error"

\* C1 as stated: a download attempt appends its record if and only if the
\* fetch returned a success status, whatever happens after the fetch.
C1_RecordIffFetched ==
    [][FetchStep =>
          (Last(log').result \in {"saved", "write_error"} <=> RecordStep)]_vars

C3_FailureOnlySkips ==
    \A i \in DOMAIN log :
        log[i].result \in {"raised", "error", "status"} =>
            pc \in {"load", "row", "probe", "download", "sleep",
                    "csv", "quit", "done"}

(***************************************************************************)
(* C4: after a page that parsed to zero rows the walk has stopped at that  *)
(* page: the page event is the last request made (no probe, no download,   *)
(* no further page), and params['page'] still is that page's index.        *)
(***************************************************************************)
C4_EmptyPageStopsWalk ==
    \A i \in DOMAIN log :
        (log[i].kind = "page" /\ log[i].result = "parsed" /\ log[i].rows = 0) =>
            /\ pc \in {"csv", "quit", "done"}
            /\ Len(log) = 1
            /\ page = log[i].page

\* C4 witness: the run ended on an empty page that was not the first page.
C4_Witness ==
    /\ pc = "done"
    /\ Len(log) = 1
    /\ log[1].kind = "page"
    /\ log[1].result = "parsed"
    /\ log[1].rows = 0
    /\ page > 0

(***************************************************************************)
(* C5: every file written under downloads/ is named by the last path       *)
(* segment of its source URL with each of \ / * ? : " < > | replaced by an *)
(* underscore, so the name holds none of these characters.                 *)
(***************************************************************************)
Forbidden ==
    {"\\", "/", "*", "?", ":", "\"", "<", ">", "|"}

\* What follows the last "/" of url; url itself when it has none.
LastSegment(url) ==
    LET slashes == {i \in DOMAIN url : url[i] = "/"}
        start == IF slashes = {}
                 THEN 0
                 ELSE CHOOSE i \in slashes : \A j \in slashes : j <= i
    IN  SubSeq(url, start + 1, Len(url))

\* The name of a file of the downloads directory, from its path.
FileName(path) == SubSeq(path, Len(DOWNLOADS) + 2, Len(path))

C5_WrittenNamesAreSanitised ==
    \A w \in DOMAIN written :
        LET name == FileName(written[w].path)
            segment == LastSegment(written[w].content)
        IN  /\ SubSeq(written[w].path, 1, Len(DOWNLOADS) + 1)
                   = DOWNLOADS \o <<"/">>
            /\ Len(name) = Len(segment)
            /\ \A i \in DOMAIN name :
                  name[i] = IF segment[i] \in Forbidden THEN "_" ELSE segment[i]
            /\ \A i \in DOMAIN name : name[i] \notin Forbidden

\* C5 witness: a file was written for a URL whose last segment holds a
\* backslash and a character that is kept.
C5_Witness ==
    /\ pc = "saved"
    /\ written # <<>>
    /\ \E i \in DOMAIN LastSegment(full_url) : LastSegment(full_url)[i] = "\\"
    /\ \E i \in DOMAIN LastSegment(full_url) : LastSegment(full_url)[i] = "a"

(***************************************************************************)
(* C6, as amended: for the Agenda link                                     *)
(* https://example.org/docs/Agenda Final.pdf, probed as application/pdf    *)
(* and fetched, the file written is downloads/Agenda Final.pdf and the     *)
(* record is {title, date, the probed URL unchanged, that path}: the space *)
(* of the last segment is kept, it is not among the replaced characters.   *)
(***************************************************************************)
AGENDA_FINAL_PATH ==
    <<"d", "o", "w", "n", "l", "o", "a", "d", "s", "/", "A", "g", "e", "n", "d", "a", " ", "F", "i", "n", "a", "l", ".", "p", "d", "f">>
AGENDA_UNDERSCORE_PATH ==
    <<"d", "o", "w", "n", "l", "o", "a", "d", "s", "/", "A", "g", "e", "n", "d", "a", "_", "F", "i", "n", "a", "l", ".", "p", "d", "f">>

\* The latest request saved the Agenda link of the row in hand, which is the
\* scenario's URL and was probed as application/pdf.
AgendaFinalSaved ==
    /\ log # <<>>
    /\ Last(log).kind = "fetch"
    /\ Last(log).label = "Agenda"
    /\ Last(log).url = AGENDA_FINAL_URL
    /\ Last(log).result = "saved"
    /\ \E i \in DOMAIN log :
          /\ SawPdf(log[i])
          /\ log[i].label = "Agenda"
          /\ log[i].content_type = APPLICATION_PDF

C6_AgendaFinalKeepsItsSpace ==
    AgendaFinalSaved =>
        /\ results # <<>>
        /\ Last(results) = [title |-> title, date |-> date,
                            pdf_url |-> AGENDA_FINAL_URL,
                            file |-> AGENDA_FINAL_PATH]
        /\ written # <<>>
        /\ Last(written).path = AGENDA_FINAL_PATH

\* C6 witness: the scenario's link was saved for the row titled BOS.
C6_Witness ==
    /\ AgendaFinalSaved
    /\ title = <<"B", "O", "S">>
    /\ Len(results) = 1

\* C6 as stated: the file and the record's file field are
\* downloads/Agenda_Final.pdf.
C6_AgendaFinalGetsUnderscore ==
    AgendaFinalSaved =>
        /\ results # <<>>
        /\ Last(results) = [title |-> title, date |-> date,
                            pdf_url |-> AGENDA_FINAL_URL,
                            file |-> AGENDA_UNDERSCORE_PATH]
        /\ written # <<>>
        /\ Last(written).path = AGENDA_UNDERSCORE_PATH

(***************************************************************************)
(* C7 as stated: the title and the date extracted for a row are never the  *)
(* empty string, and so no record has an empty title or date.              *)
(***************************************************************************)
C7_TitleAndDateNeverEmpty ==
    /\ pc \in {"probe", "download"} => title # <<>> /\ date # <<>>
    /\ \A i \in DOMAIN results :
          results[i].title # <<>> /\ results[i].date # <<>>

(***************************************************************************)
(* C8 as stated: the URL probed is the href itself when the href is an     *)
(* absolute URL, and the href resolved against the origin                  *)
(* https://www.fluvannacounty.org when it is relative, with or without a   *)
(* leading slash.  It is stated for the absolute hrefs and for the hrefs   *)
(* that are plain paths, where resolving needs no more than this rule.     *)
(***************************************************************************)
HTTP_SCHEME ==
    <<"h", "t", "t", "p", ":", "/", "/">>
HTTPS_SCHEME ==
    <<"h", "t", "t", "p", "s", ":", "/", "/">>
IsAbsolute(href) ==
    StartsWith(href, HTTP_SCHEME) \/ StartsWith(href, HTTPS_SCHEME)

\* The href resolved against the origin, whose path is the root.
Resolve(href) ==
    IF IsAbsolute(href) THEN href
    ELSE IF href = <<>> THEN ORIGIN
    ELSE IF href[1] = "/" THEN ORIGIN \o href
    ELSE ORIGIN \o <<"/">> \o href

\* A relative href that is a plain path: letters and slashes, without the
\* "//" that would name another host.
IsPath(href) ==
    /\ \A i \in DOMAIN href : href[i] \in {"a", "h", "t", "p", "/"}
    /\ ~StartsWith(href, <<"/", "/">>)

C8_ProbedUrlIsResolvedHref ==
    (/\ pc \in {"resolved", "named", "saved", "refused"}
     /\ IsAbsolute(raw_url) \/ IsPath(raw_url)) =>
        full_url = Resolve(raw_url)

(***************************************************************************)
(* C9: the run is strictly ordered.  Pages are requested with index 0, 1,  *)
(* 2, ... each once: a page is requested only when the script enters the   *)
(* loop body, for the index params['page'] holds, and the index grows by   *)
(* one exactly when the body is entered again.  Rows are taken in document *)
(* order, the next one only after every link of the row in hand that was   *)
(* probed as a PDF has been downloaded.  Within a row the probes come in   *)
(* the order Agenda, Package, Action Report, Minutes, COAD Report, then    *)
(* the downloads in that same order, each label at most once in each.      *)
(***************************************************************************)
LabelOrder ==
    <<"Agenda", "Package", "Action Report", "Minutes", "COAD Report">>

OrderOf(label) == CHOOSE i \in DOMAIN LabelOrder : LabelOrder[i] = label

\* The turn of a request within its row: the probes, then the downloads.
Turn(e) ==
    IF e.kind = "probe"
    THEN OrderOf(e.label)
    ELSE Len(LabelOrder) + OrderOf(e.label)

\* The step makes a request, the last of log afterwards.
RequestStep == log' # log /\ log' # <<>>

C9_RowRequestsInLabelOrder ==
    \A j \in DOMAIN log :
        IF log[j].kind = "page"
        THEN Len(log) = 1
        ELSE /\ log[j].row = ri
             /\ log[j].label \in {LabelOrder[k] : k \in DOMAIN LabelOrder}
             /\ \A i \in 1..(j - 1) : Turn(log[i]) < Turn(log[j])

C9_OrderedStep ==
    /\ RequestStep =>
          /\ Last(log').page = page
          /\ page' = page
          /\ IF Last(log').kind = "page"
             THEN pc = "load" /\ pc' # "load"
             ELSE /\ ri > 0 /\ ri' = ri
                  /\ Last(log').row = ri
                  /\ Last(log').url # <<>>
    /\ (pc = "load" /\ pc' # "load") =>
          RequestStep /\ Last(log').kind = "page"
    /\ (pc' = "load" /\ pc # "load") <=> page' = page + 1
    /\ page' # page => page' = page + 1
    /\ ri' # ri =>
          \/ /\ ri' = ri + 1
             /\ ri' <= Len(meeting_nodes)
             /\ \A i \in DOMAIN log :
                   SawPdf(log[i]) =>
                       \E j \in DOMAIN log :
                           /\ log[j].kind = "fetch"
                           /\ log[j].label = log[i].label
          \/ /\ ri' = 0
             /\ RequestStep
             /\ Last(log').kind = "page"

C9_StrictOrder ==
    /\ page = 0
    /\ [](C9_RowRequestsInLabelOrder)
    /\ [][C9_OrderedStep]_vars

\* C9 witness: the second row of a page is finished, with two links probed
\* and then downloaded.
C9_Witness ==
    /\ RowDone
    /\ ri = 2
    /\ \E i, j \in DOMAIN log :
          /\ i < j
          /\ log[i].kind = "fetch"
          /\ log[j].kind = "fetch"

(***************************************************************************)
(* C10 as stated: the walk ends exactly at a page that timed out or that   *)
(* parsed to zero rows, and the script then writes the CSV and closes the  *)
(* browser: whenever the script has left the walk, the last request is     *)
(* such a page, and when it has come to rest the CSV is written and the    *)
(* browser closed.                                                         *)
(***************************************************************************)
C10_WalkEndsAtSlowOrEmptyPage ==
    /\ pc \in Stopped =>
          /\ Len(log) = 1
          /\ log[1].kind = "page"
          /\ \/ log[1].result = "timeout"
             \/ log[1].result = "parsed" /\ log[1].rows = 0
    /\ pc \in {"done", "crashed"} => csv # <<>> /\ driver = "quit"

=============================================================================
